---- MODULE Spec2Model ----
(***************************************************************************)
(* Blog-writing multi-agent pipeline: a LangGraph StateGraph               *)
(*   START -> router -> (research)? -> orchestrator -> fanout ->           *)
(*   worker x N -> reducer -> END                                          *)
(* over the shared State dict of schemas/__init__.py.                      *)
(*                                                                         *)
(* Text is a sequence of one-character strings, dates are day numbers,     *)
(* Python's None for `plan` is the record Null.                            *)
(***************************************************************************)
EXTENDS Integers, Sequences, FiniteSets, TLC

VARIABLES
    pc,        \* the node the engine runs next ("START", a node name, "END", "FAILED")
    state,     \* the State dict threaded through the graph
    sends,     \* the Send payloads returned by fanout(), in list order
    wstatus,   \* per Send: "running" | "done" | "failed"
    wout,      \* per Send: the (id, markdown) pair its worker returned, <<>> until then
    executed,  \* history: the node functions that returned or raised, in order
    raised,    \* history: the node functions that raised, in order
    disk,      \* history: the Path.write_text calls, in order, as [name, text]
    calls,     \* history: the external calls made (LLM, search), in order
    reply,     \* history: what the last structured-output call (and its searches) returned
    stream     \* app.py's try_stream: which of its graph calls is running, what it yielded

vars == <<pc, state, sends, wstatus, wout, executed, raised, disk, calls, reply, stream>>

----------------------------------------------------------------------------
(* Bounds of the model *)

MaxTasks == 3          \* longest task list the planner call returns
MaxCalls == 2          \* direct calls of fanout / reducer_node in SpecCall
Today    == 100        \* the as_of day of the run

TaskIds == {1, 2}

NL == "\n"
SP == " "

----------------------------------------------------------------------------
(* Text helpers: what str.strip, str.join and sorted(key=...) compute *)

Whitespace == {SP, NL}

RECURSIVE LStrip(_)
LStrip(s) ==
    IF s # <<>> /\ Head(s) \in Whitespace THEN LStrip(Tail(s)) ELSE s

RECURSIVE RStrip(_)
RStrip(s) ==
    IF s # <<>> /\ s[Len(s)] \in Whitespace
    THEN RStrip(SubSeq(s, 1, Len(s) - 1))
    ELSE s

Strip(s) == RStrip(LStrip(s))

RECURSIVE Join(_, _)
Join(sep, parts) ==
    IF parts = <<>> THEN <<>>
    ELSE IF Len(parts) = 1 THEN parts[1]
    ELSE parts[1] \o sep \o Join(sep, Tail(parts))

\* sorted(..., key=lambda pair: pair[0]) is stable: equal keys keep input order
RECURSIVE InsertById(_, _)
InsertById(sorted, p) ==
    IF sorted = <<>> THEN <<p>>
    ELSE IF Head(sorted)[1] <= p[1]
         THEN <<Head(sorted)>> \o InsertById(Tail(sorted), p)
         ELSE <<p>> \o sorted

RECURSIVE SortedById(_)
SortedById(s) ==
    IF s = <<>> THEN <<>>
    ELSE InsertById(SortedById(SubSeq(s, 1, Len(s) - 1)), s[Len(s)])

\* re.sub(r'[\\/:*?"<>|]', '_', title)
UnsafeChars == {"\\", "/", ":", "*", "?", "\"", "<", ">", "|"}

\* the unsafe characters dropped instead of replaced
SubUnsafe_Removes(title) == SelectSeq(title, LAMBDA c : c \notin UnsafeChars)

SubUnsafe(title) ==
    [i \in 1..Len(title) |-> IF title[i] \in UnsafeChars THEN "_" ELSE title[i]]

----------------------------------------------------------------------------
(* Schemas *)

Null == [null |-> TRUE]

Modes == {"closed_book", "hybrid", "open_book"}

BlogKinds == {"explainer", "tutorial", "news_roundup", "comparison", "system_design"}

Task(id) == [id |-> id]

\* every non-empty-or-empty list of Task the Plan schema accepts, up to n tasks
TaskLists(n) ==
    UNION {[1..k -> {Task(i) : i \in TaskIds}] : k \in 0..n}

Titles == {<<"T">>, <<"a", "/", "B">>}

KindsReturned == {"tutorial", "news_roundup"}

Plan(title, kind, tasks) ==
    [blog_title |-> title, blog_kind |-> kind, tasks |-> tasks]

\* what planner.invoke may return: any value that validates as a Plan
PlannerOutputs ==
    {Plan(t, k, ts) : t \in Titles, k \in KindsReturned, ts \in TaskLists(MaxTasks)}

EvidenceItem(title, url, published_at) ==
    [title |-> title, url |-> url, published_at |-> published_at]

\* what decider.invoke may return: any value that validates as a RouterDecision
QueryChoices == {<<>>, <<"q1", "q2", "q3">>}

MaxResultsChoices == {5, 7}

RouterDecisions ==
    {[needs_research |-> nr, mode |-> m, queries |-> q, max_results_per_query |-> n] :
        nr \in BOOLEAN, m \in Modes, q \in QueryChoices, n \in MaxResultsChoices}

Topic == "AI for kids"

_initial_state(topic, as_of) ==
    [ topic          |-> topic,
      mode           |-> "",
      needs_research |-> FALSE,
      queries        |-> <<>>,
      evidence       |-> <<>>,
      plan           |-> Null,
      as_of          |-> as_of,
      recency_days   |-> 7,
      sections       |-> <<>>,
      final          |-> <<>> ]

----------------------------------------------------------------------------
(* The engine's merge of a node's returned update into State.              *)
(* `sections` is Annotated[..., operator.add]; every other key overwrites. *)

\* last-write-wins instead of operator.add
MergeSections_Overwrite(old, new) == new

MergeSections(old, new) == old \o new

ApplyUpdate(st, upd) ==
    [f \in DOMAIN st |->
        IF f \in DOMAIN upd
        THEN IF f = "sections" THEN MergeSections(st[f], upd[f]) ELSE upd[f]
        ELSE st[f]]

----------------------------------------------------------------------------
(* nodes/router.py *)

recency_map(mode) ==
    CASE mode = "open_book"   -> 7
      [] mode = "hybrid"      -> 45
      [] mode = "closed_book" -> 3650
      [] OTHER                -> 3650

\* the placeholder of the initial state left in place
router_node_KeepsRecency(st, decision) ==
    [ needs_research |-> decision.needs_research,
      mode           |-> decision.mode,
      queries        |-> decision.queries,
      recency_days   |-> st.recency_days ]

router_node(st, decision) ==
    [ needs_research |-> decision.needs_research,
      mode           |-> decision.mode,
      queries        |-> decision.queries,
      recency_days   |-> recency_map(decision.mode) ]

\* the two branches swapped
route_next_Swapped(st) == IF st.needs_research THEN "orchestrator" ELSE "research"

route_next(st) == IF st.needs_research THEN "research" ELSE "orchestrator"

----------------------------------------------------------------------------
(* utils/__init__.py and nodes/research.py *)

NoDate       == [kind |-> "none"]
Malformed    == [kind |-> "malformed"]
IsoDate(day) == [kind |-> "iso", day |-> day]

\* Optional[date] as a sequence of length <= 1
iso_to_date(s) == IF s.kind = "iso" THEN <<s.day>> ELSE <<>>

\* no cap: the whole list
Take_All(s, n) == s

Take(s, n) == SubSeq(s, 1, IF Len(s) < n THEN Len(s) ELSE n)

RECURSIVE Flatten(_)
Flatten(ss) == IF ss = <<>> THEN <<>> ELSE Head(ss) \o Flatten(Tail(ss))

\* first-write-wins: a later item of a known url is ignored
RECURSIVE DedupByUrl_FirstWins(_, _)
DedupByUrl_FirstWins(acc, items) ==
    IF items = <<>> THEN acc
    ELSE LET e == Head(items) IN
         DedupByUrl_FirstWins(
            IF e.url = "" \/ \E j \in 1..Len(acc) : acc[j].url = e.url
            THEN acc
            ELSE Append(acc, e),
            Tail(items))

\* {e.url: e for e in items if e.url}, then list(values()): a key keeps the
\* position of its first insertion and the value of its last
RECURSIVE DedupByUrl(_, _)
DedupByUrl(acc, items) ==
    IF items = <<>> THEN acc
    ELSE LET e == Head(items) IN
         DedupByUrl(
            IF e.url = "" THEN acc
            ELSE IF \E j \in 1..Len(acc) : acc[j].url = e.url
                 THEN [j \in 1..Len(acc) |-> IF acc[j].url = e.url THEN e ELSE acc[j]]
                 ELSE Append(acc, e),
            Tail(items))

\* an item without a parseable date passes the filter
IsFresh_KeepsUndated(item, cutoff) ==
    LET d == iso_to_date(item.published_at) IN d = <<>> \/ d[1] >= cutoff

IsFresh(item, cutoff) ==
    LET d == iso_to_date(item.published_at) IN d # <<>> /\ d[1] >= cutoff

\* the date filter applied in every mode
research_node_AlwaysFilters(st, hits, pack) ==
    LET raw_results == Flatten(hits)
        evidence    == DedupByUrl(<<>>, pack)
        cutoff_date == st.as_of - st.recency_days
    IN IF raw_results = <<>>
       THEN [evidence |-> <<>>]
       ELSE [evidence |-> SelectSeq(evidence, LAMBDA item : IsFresh(item, cutoff_date))]

\* hits[i]: what tavily_search(queries[i], max_results=2) returned;
\* pack: what extractor.invoke returned (only called when there are raw results)
research_node(st, hits, pack) ==
    LET raw_results == Flatten(hits)
        evidence    == DedupByUrl(<<>>, pack)
        cutoff_date == st.as_of - st.recency_days
    IN IF raw_results = <<>>
       THEN [evidence |-> <<>>]
       ELSE IF st.mode = "open_book"
            THEN [evidence |-> SelectSeq(evidence, LAMBDA item : IsFresh(item, cutoff_date))]
            ELSE [evidence |-> evidence]

SearchReturns == {<<>>, <<"r1">>, <<"r1", "r2">>}

PackChoices ==
    { <<>>,
      << EvidenceItem("Y", "a", IsoDate(Today - 9)),
         EvidenceItem("X", "a", IsoDate(Today - 1)),
         EvidenceItem("W", "",  IsoDate(Today - 1)),
         EvidenceItem("Z", "b", NoDate) >> }

----------------------------------------------------------------------------
(* nodes/orchestrator.py *)

\* the planner's blog_kind kept in every mode
orchestrator_node_NoOverride(st, returned) == [plan |-> returned]

orchestrator_node(st, returned) ==
    [ plan |-> IF st.mode = "open_book"
               THEN [returned EXCEPT !.blog_kind = "news_roundup"]
               ELSE returned ]

----------------------------------------------------------------------------
(* graph/fanout.py *)

\* the evidence left out of the payload
Payload_NoEvidence(st, task) ==
    [ task         |-> task,
      topic        |-> st.topic,
      mode         |-> st.mode,
      as_of        |-> st.as_of,
      recency_days |-> st.recency_days,
      plan         |-> st.plan,
      evidence     |-> <<>> ]

Payload(st, task) ==
    [ task         |-> task,
      topic        |-> st.topic,
      mode         |-> st.mode,
      as_of        |-> st.as_of,
      recency_days |-> st.recency_days,
      plan         |-> st.plan,
      evidence     |-> st.evidence ]

\* a missing plan tolerated as "no tasks"
fanout_NoAssert(st) ==
    IF st.plan = Null
    THEN [raises |-> FALSE, sends |-> <<>>]
    ELSE [raises |-> FALSE,
          sends  |-> [i \in 1..Len(st.plan.tasks) |-> Payload(st, st.plan.tasks[i])]]

\* the assert (or, without it, the attribute access on None) raises before
\* any Send is built
fanout(st) ==
    IF st.plan = Null
    THEN [raises |-> TRUE,  sends |-> <<>>]
    ELSE [raises |-> FALSE,
          sends  |-> [i \in 1..Len(st.plan.tasks) |-> Payload(st, st.plan.tasks[i])]]

----------------------------------------------------------------------------
(* nodes/worker.py *)

\* what llm.invoke(...).content may be, before .strip()
RawContents == {<<"a">>, <<SP, "b", NL>>}

\* the id taken from the first task of the shared plan
worker_node_FirstTaskId(payload, content) ==
    [sections |-> << <<payload.plan.tasks[1].id, Strip(content)>> >>]

\* the worker also returns its text under the key "final"
worker_node_WritesFinal(payload, content) ==
    [sections |-> << <<payload.task.id, Strip(content)>> >>, final |-> Strip(content)]

worker_node(payload, content) ==
    [sections |-> << <<payload.task.id, Strip(content)>> >>]

----------------------------------------------------------------------------
(* nodes/reducer.py *)

Contents(pairs) == [i \in 1..Len(pairs) |-> pairs[i][2]]

\* the files on disk after the write_text calls `writes`: a write replaces
\* the file of that name
Files(writes) ==
    [name \in {writes[k].name : k \in 1..Len(writes)} |->
        LET last == CHOOSE k \in 1..Len(writes) :
                       /\ writes[k].name = name
                       /\ \A j \in (k + 1)..Len(writes) : writes[j].name # name
        IN writes[last].text]

\* the new document appended to the final already in State
reducer_node_Appends(st) ==
    IF st.plan = Null
    THEN [raises |-> TRUE]
    ELSE LET ordered_sections == Contents(SortedById(st.sections))
             body     == Strip(Join(<<NL, NL>>, ordered_sections))
             final_md == <<"#", SP>> \o st.plan.blog_title \o <<NL, NL>> \o body \o <<NL>>
             filename == SubUnsafe(st.plan.blog_title) \o <<".", "m", "d">>
         IN [raises |-> FALSE, final |-> st.final \o final_md, filename |-> filename]

\* the H1 title line left out
reducer_node_NoHeading(st) ==
    IF st.plan = Null
    THEN [raises |-> TRUE]
    ELSE LET ordered_sections == Contents(SortedById(st.sections))
             body     == Strip(Join(<<NL, NL>>, ordered_sections))
             filename == SubUnsafe(st.plan.blog_title) \o <<".", "m", "d">>
         IN [raises |-> FALSE, final |-> body \o <<NL>>, filename |-> filename]

reducer_node(st) ==
    IF st.plan = Null
    THEN [raises |-> TRUE]
    ELSE LET ordered_sections == Contents(SortedById(st.sections))
             body     == Strip(Join(<<NL, NL>>, ordered_sections))
             final_md == <<"#", SP>> \o st.plan.blog_title \o <<NL, NL>> \o body \o <<NL>>
             filename == SubUnsafe(st.plan.blog_title) \o <<".", "m", "d">>
         IN [raises |-> FALSE, final |-> final_md, filename |-> filename]

----------------------------------------------------------------------------
(* graph/builder.py: the compiled graph, run by app.invoke(_initial_state) *)

NoReply == [none |-> TRUE]

\* the graph is not run through try_stream
NoStream == [call |-> 0, yielded |-> <<>>]

\* what the running graph call hands to its consumer when `node` has returned
\* `update` and State has become `after`: under stream_mode="updates" (call 1
\* of try_stream) the item ("updates", {node: update}); under
\* stream_mode="values" (call 3) the item ("values", State) once the step is
\* complete; nothing under invoke
Emit(str, node, update, after, step_done) ==
    IF str.call = 1
    THEN [str EXCEPT !.yielded = Append(@, <<"updates", [n \in {node} |-> update]>>)]
    ELSE IF str.call = 3 /\ step_done
         THEN [str EXCEPT !.yielded = Append(@, <<"values", after>>)]
         ELSE str

DeciderCall   == [fn |-> "decider"]
ExtractorCall == [fn |-> "extractor"]
PlannerCall   == [fn |-> "planner"]
WorkerCall(payload) == [fn |-> "llm", task |-> payload.task.id]

\* tavily_search(query, max_results=2) for each of the queries, in order
SearchCalls(queries) ==
    [k \in 1..Len(queries) |-> [fn |-> "tavily_search", query |-> queries[k], max_results |-> 2]]

Init ==
    /\ pc = "START"
    /\ state = _initial_state(Topic, Today)
    /\ sends = <<>>
    /\ wstatus = <<>>
    /\ wout = <<>>
    /\ executed = <<>>
    /\ raised = <<>>
    /\ disk = <<>>
    /\ calls = <<>>
    /\ reply = NoReply
    /\ stream = NoStream

\* g.add_edge(START, "router")
Invoke ==
    /\ pc = "START"
    /\ pc' = "router"
    /\ UNCHANGED <<state, sends, wstatus, wout, executed, raised, disk, calls, reply>>
    /\ stream' = IF stream.call = 3
                 THEN [stream EXCEPT !.yielded = Append(@, <<"values", state>>)]
                 ELSE stream

\* the engine runs the failed node again
Raise_Retry(node) ==
    /\ pc' = pc
    /\ executed' = Append(executed, node)
    /\ raised' = Append(raised, node)

\* a node raised: app.invoke propagates it, nothing else runs
Raise(node) ==
    /\ pc' = "FAILED"
    /\ executed' = Append(executed, node)
    /\ raised' = Append(raised, node)

\* router_node returns, the classifier answering from `decisions`; then the
\* conditional edge route_next
RouterStep(decisions) ==
    /\ pc = "router"
    /\ \E decision \in decisions :
          LET new == ApplyUpdate(state, router_node(state, decision)) IN
          /\ state' = new
          /\ pc' = route_next(new)
          /\ reply' = decision
    /\ calls' = Append(calls, DeciderCall)
    /\ executed' = Append(executed, "router")
    /\ UNCHANGED <<sends, wstatus, wout, raised, disk>>
    /\ stream' = Emit(stream, "router", router_node(state, reply'), state', TRUE)

RouterReturns == RouterStep(RouterDecisions)

\* a failed classification replaced by a closed-book default
RouterRaises_Defaults ==
    /\ pc = "router"
    /\ LET default == [needs_research |-> FALSE, mode |-> "closed_book",
                       queries |-> <<>>, max_results_per_query |-> 5]
           new     == ApplyUpdate(state, router_node(state, default))
       IN state' = new /\ pc' = route_next(new)
    /\ calls' = Append(calls, DeciderCall)
    /\ executed' = Append(executed, "router")
    /\ UNCHANGED <<sends, wstatus, wout, raised, disk, reply>>
    /\ UNCHANGED stream

RouterRaises ==
    /\ pc = "router"
    /\ Raise("router")
    /\ calls' = Append(calls, DeciderCall)
    /\ UNCHANGED <<state, sends, wstatus, wout, disk, reply>>
    /\ UNCHANGED stream

\* the extractor called even when the searches found nothing
ResearchStep_AlwaysExtracts(returns, packs) ==
    /\ pc = "research"
    /\ LET queries == Take(state.queries, 2) IN
       \E hits \in [1..Len(queries) -> returns] :
       \E pack \in packs :
          /\ state' = ApplyUpdate(state, [evidence |-> DedupByUrl(<<>>, pack)])
          /\ calls' = (calls \o SearchCalls(queries)) \o <<ExtractorCall>>
          /\ reply' = [hits |-> hits, pack |-> pack]
    /\ pc' = "orchestrator"
    /\ executed' = Append(executed, "research")
    /\ UNCHANGED <<sends, wstatus, wout, raised, disk>>
    /\ UNCHANGED stream

\* research_node returns, the searches answering from `returns` and the
\* extractor from `packs`; then g.add_edge("research", "orchestrator")
ResearchStep(returns, packs) ==
    /\ pc = "research"
    /\ LET queries == Take(state.queries, 2) IN
       \E hits \in [1..Len(queries) -> returns] :
          IF Flatten(hits) = <<>>
          THEN \* no raw results: the extractor is not called
               /\ state' = ApplyUpdate(state, research_node(state, hits, <<>>))
               /\ calls' = calls \o SearchCalls(queries)
               /\ reply' = [hits |-> hits, pack |-> <<>>]
          ELSE \E pack \in packs :
               /\ state' = ApplyUpdate(state, research_node(state, hits, pack))
               /\ calls' = (calls \o SearchCalls(queries)) \o <<ExtractorCall>>
               /\ reply' = [hits |-> hits, pack |-> pack]
    /\ pc' = "orchestrator"
    /\ executed' = Append(executed, "research")
    /\ UNCHANGED <<sends, wstatus, wout, raised, disk>>
    /\ stream' = Emit(stream, "research",
                      research_node(state, reply'.hits, reply'.pack), state', TRUE)

ResearchReturns == ResearchStep(SearchReturns, PackChoices)

\* a search raised (the k-th), or the extractor raised on non-empty raw results
ResearchRaises ==
    /\ pc = "research"
    /\ LET queries == Take(state.queries, 2) IN
       \/ \E k \in 1..Len(queries) :
             calls' = calls \o SearchCalls(Take(queries, k))
       \/ /\ queries # <<>>   \* some search returned a result
          /\ calls' = (calls \o SearchCalls(queries)) \o <<ExtractorCall>>
    /\ Raise("research")
    /\ UNCHANGED <<state, sends, wstatus, wout, disk, reply>>
    /\ UNCHANGED stream

\* orchestrator_node returns, the planner answering from `outputs`; its
\* conditional edge fanout is the next step
OrchestratorStep(outputs) ==
    /\ pc = "orchestrator"
    /\ \E returned \in outputs :
          /\ state' = ApplyUpdate(state, orchestrator_node(state, returned))
          /\ reply' = returned
    /\ calls' = Append(calls, PlannerCall)
    /\ pc' = "fanout"
    /\ executed' = Append(executed, "orchestrator")
    /\ UNCHANGED <<sends, wstatus, wout, raised, disk>>
    /\ stream' = Emit(stream, "orchestrator", orchestrator_node(state, reply'), state', TRUE)

OrchestratorReturns == OrchestratorStep(PlannerOutputs)

\* the engine calls the orchestrator again after planner.invoke raised
OrchestratorRaises_Retried ==
    /\ pc = "orchestrator"
    /\ pc' = "orchestrator"
    /\ executed' = Append(executed, "orchestrator")
    /\ raised' = Append(raised, "orchestrator")
    /\ calls' = Append(calls, PlannerCall)
    /\ UNCHANGED <<state, sends, wstatus, wout, disk, reply>>
    /\ UNCHANGED stream

OrchestratorRaises ==
    /\ pc = "orchestrator"
    /\ Raise("orchestrator")
    /\ calls' = Append(calls, PlannerCall)
    /\ UNCHANGED <<state, sends, wstatus, wout, disk, reply>>
    /\ UNCHANGED stream

\* g.add_conditional_edges("orchestrator", fanout, ["worker"]): one worker
\* instance per Send; the reducer is reached only from a worker, so an empty
\* list of Sends ends the run
Fanout ==
    /\ pc = "fanout"
    /\ LET r == fanout(state) IN
       IF r.raises
       THEN /\ Raise("fanout")
            /\ UNCHANGED <<sends, wstatus, wout>>
       ELSE /\ sends' = r.sends
            /\ wstatus' = [i \in 1..Len(r.sends) |-> "running"]
            /\ wout' = [i \in 1..Len(r.sends) |-> <<>>]
            /\ pc' = IF r.sends = <<>> THEN "END" ELSE "worker"
            /\ executed' = Append(executed, "fanout")
            /\ UNCHANGED raised
    /\ UNCHANGED <<state, disk, calls, reply>>
    /\ UNCHANGED stream

\* g.add_edge("worker", "reducer"): the reducer runs once every worker
\* instance of the step has returned
\* released by the first worker that returns
BarrierReleased_Any(ws) == \E i \in 1..Len(ws) : ws[i] = "done"

BarrierReleased(ws) == \A i \in 1..Len(ws) : ws[i] = "done"

\* the i-th worker instance returns, the LLM answering from `contents`
WorkerStep(i, contents) ==
    /\ pc = "worker"
    /\ wstatus[i] = "running"
    /\ \E content \in contents :
          LET upd == worker_node(sends[i], content) IN
          /\ state' = ApplyUpdate(state, upd)
          /\ wout' = [wout EXCEPT ![i] = upd.sections[1]]
    /\ wstatus' = [wstatus EXCEPT ![i] = "done"]
    /\ pc' = IF BarrierReleased(wstatus') THEN "reducer" ELSE "worker"
    /\ executed' = Append(executed, "worker")
    /\ calls' = Append(calls, WorkerCall(sends[i]))
    /\ UNCHANGED <<sends, raised, disk, reply>>
    /\ stream' = Emit(stream, "worker", [sections |-> <<wout'[i]>>], state',
                      BarrierReleased(wstatus'))

WorkerReturns(i) == WorkerStep(i, RawContents)

\* the exception swallowed: the instance counts as finished without a result
WorkerRaises_Swallowed(i) ==
    /\ pc = "worker"
    /\ wstatus[i] = "running"
    /\ wstatus' = [wstatus EXCEPT ![i] = "failed"]
    /\ pc' = IF \A k \in 1..Len(wstatus') : wstatus'[k] # "running"
             THEN "reducer" ELSE "worker"
    /\ executed' = Append(executed, "worker")
    /\ calls' = Append(calls, WorkerCall(sends[i]))
    /\ UNCHANGED <<state, sends, wout, raised, disk, reply>>
    /\ UNCHANGED stream

WorkerRaises(i) ==
    /\ pc = "worker"
    /\ wstatus[i] = "running"
    /\ wstatus' = [wstatus EXCEPT ![i] = "failed"]
    /\ Raise("worker")
    /\ calls' = Append(calls, WorkerCall(sends[i]))
    /\ UNCHANGED <<state, sends, wout, disk, reply>>
    /\ UNCHANGED stream

\* reducer, then g.add_edge("reducer", END)
ReducerRuns ==
    /\ pc = "reducer"
    /\ LET r == reducer_node(state) IN
       IF r.raises
       THEN /\ Raise("reducer")
            /\ UNCHANGED <<state, disk>>
       ELSE /\ disk' = Append(disk, [name |-> r.filename, text |-> r.final])
            /\ state' = ApplyUpdate(state, [final |-> r.final])
            /\ pc' = "END"
            /\ executed' = Append(executed, "reducer")
            /\ UNCHANGED raised
    /\ UNCHANGED <<sends, wstatus, wout, calls, reply>>
    /\ stream' = IF reducer_node(state).raises THEN stream
                 ELSE Emit(stream, "reducer", [final |-> state'.final], state', TRUE)

\* Path(filename).write_text raised
ReducerWriteRaises ==
    /\ pc = "reducer"
    /\ ~reducer_node(state).raises
    /\ Raise("reducer")
    /\ UNCHANGED <<state, sends, wstatus, wout, disk, calls, reply>>
    /\ UNCHANGED stream

Next ==
    \/ Invoke
    \/ RouterReturns
    \/ RouterRaises
    \/ ResearchReturns
    \/ ResearchRaises
    \/ OrchestratorReturns
    \/ OrchestratorRaises
    \/ Fanout
    \/ \E i \in 1..Len(sends) : WorkerReturns(i)
    \/ \E i \in 1..Len(sends) : WorkerRaises(i)
    \/ ReducerRuns
    \/ ReducerWriteRaises

Spec == Init /\ [][Next]_vars

----------------------------------------------------------------------------
(* main.py: run() prints a summary of the state app.invoke returned *)

run_summary(out) ==
    [ as_of          |-> out.as_of,
      recency_days   |-> out.recency_days,
      mode           |-> out.mode,
      blog_kind      |-> out.plan.blog_kind,
      needs_research |-> out.needs_research,
      queries        |-> Take(out.queries, 4),
      evidence_count |-> Len(out.evidence),
      tasks          |-> Len(out.plan.tasks),
      output_chars   |-> Len(out.final),
      saved_as       |-> out.plan.blog_title \o <<".", "m", "d">> ]

----------------------------------------------------------------------------
(* fanout() and reducer_node() called directly on a State, outside the graph *)

MaxSections == 2

SectionLists(n) ==
    UNION {[1..k -> TaskIds \X {<<>>, <<"a">>, <<"b">>}] : k \in 0..n}

DirectStates ==
    {[_initial_state(Topic, Today) EXCEPT !.plan = p, !.sections = s] :
        p \in {Null} \cup {Plan(t, "tutorial", ts) : t \in Titles, ts \in TaskLists(2)},
        s \in SectionLists(MaxSections)}

InitCall ==
    /\ pc = "direct"
    /\ state \in DirectStates
    /\ sends = <<>>
    /\ wstatus = <<>>
    /\ wout = <<>>
    /\ executed = <<>>
    /\ raised = <<>>
    /\ disk = <<>>
    /\ calls = <<>>
    /\ reply = NoReply
    /\ stream = NoStream

CallFanout ==
    /\ pc = "direct"
    /\ Len(executed) < MaxCalls
    /\ executed' = Append(executed, "fanout")
    /\ LET r == fanout(state) IN
       IF r.raises
       THEN raised' = Append(raised, "fanout") /\ UNCHANGED sends
       ELSE sends' = r.sends /\ UNCHANGED raised
    /\ UNCHANGED <<pc, state, wstatus, wout, disk, calls, reply>>
    /\ UNCHANGED stream

CallReducer ==
    /\ pc = "direct"
    /\ Len(executed) < MaxCalls
    /\ executed' = Append(executed, "reducer")
    /\ LET r == reducer_node(state) IN
       IF r.raises
       THEN raised' = Append(raised, "reducer") /\ UNCHANGED <<state, disk>>
       ELSE /\ disk' = Append(disk, [name |-> r.filename, text |-> r.final])
            /\ state' = ApplyUpdate(state, [final |-> r.final])
            /\ UNCHANGED raised
    /\ UNCHANGED <<pc, sends, wstatus, wout, calls, reply>>
    /\ UNCHANGED stream

NextCall == CallFanout \/ CallReducer

SpecCall == InitCall /\ [][NextCall]_vars

----------------------------------------------------------------------------
(* router_node() and research_node() run on any State, with any evidence     *)
(* pack the extractor may return                                             *)

MaxPack == 3

PriorRecency == {7, 8}

PublishedAts == {NoDate, Malformed, IsoDate(Today - 7), IsoDate(Today - 8)}

Items == {EvidenceItem("t", url, p) : url \in {"", "a", "b"}, p \in PublishedAts}

Packs(n) == UNION {[1..k -> Items] : k \in 0..n}

NodeStates ==
    {[_initial_state(Topic, Today) EXCEPT !.mode = m, !.recency_days = r, !.queries = q] :
        m \in Modes \cup {""}, r \in PriorRecency, q \in QueryChoices}

InitNode ==
    /\ pc \in {"router", "research"}
    /\ state \in NodeStates
    /\ sends = <<>>
    /\ wstatus = <<>>
    /\ wout = <<>>
    /\ executed = <<>>
    /\ raised = <<>>
    /\ disk = <<>>
    /\ calls = <<>>
    /\ reply = NoReply
    /\ stream = NoStream

CallResearch == ResearchStep({<<>>, <<"r1">>}, Packs(MaxPack))

NextNode == RouterReturns \/ RouterRaises \/ CallResearch \/ ResearchRaises

SpecNode == InitNode /\ [][NextNode]_vars

----------------------------------------------------------------------------
(* orchestrator_node() run on what the planner's LLM may produce, with the   *)
(* fields of Task that the Task schema constrains or documents               *)

MaxRawTasks == 2

Bullets(n) == [k \in 1..n |-> "b"]

RawTasks ==
    {[id |-> 1, bullets |-> Bullets(n), target_words |-> w] :
        n \in {2, 3, 6, 7}, w \in {119, 120, 550, 551}}

RawPlans ==
    {Plan(<<"T">>, "tutorial", ts) : ts \in UNION {[1..k -> RawTasks] : k \in 0..MaxRawTasks}}

\* bullets: min_length=3, max_length=6; target_words: int, unconstrained
TaskValidates(task) == Len(task.bullets) >= 3 /\ Len(task.bullets) <= 6

PlanValidates(plan) == \A k \in 1..Len(plan.tasks) : TaskValidates(plan.tasks[k])

InitPlan ==
    /\ pc = "orchestrator"
    /\ state \in {[_initial_state(Topic, Today) EXCEPT !.mode = m] : m \in Modes}
    /\ sends = <<>>
    /\ wstatus = <<>>
    /\ wout = <<>>
    /\ executed = <<>>
    /\ raised = <<>>
    /\ disk = <<>>
    /\ calls = <<>>
    /\ reply = NoReply
    /\ stream = NoStream

CallOrchestrator == OrchestratorStep({p \in RawPlans : PlanValidates(p)})

\* with_structured_output(Plan) raises on output that does not validate
OrchestratorRejects ==
    /\ pc = "orchestrator"
    /\ \E p \in RawPlans :
          /\ ~PlanValidates(p)
          /\ reply' = [rejected |-> p]
    /\ Raise("orchestrator")
    /\ calls' = Append(calls, PlannerCall)
    /\ UNCHANGED <<state, sends, wstatus, wout, disk>>
    /\ UNCHANGED stream

NextPlan == CallOrchestrator \/ OrchestratorRejects

SpecPlan == InitPlan /\ [][NextPlan]_vars

----------------------------------------------------------------------------
(* app.py: try_stream(app, inputs), consumed to its end by the handler of    *)
(* the Generate button. Its graph calls are, in order of the code:           *)
(*   1 stream(updates)  2 invoke  |  3 stream(values)  4 invoke  |  5 invoke *)
(* executed, raised, calls and disk are histories over the whole request.    *)
(* stream.yielded holds every item yielded to the handler, in order.         *)

StreamDecisions ==
    { [needs_research |-> FALSE, mode |-> "closed_book", queries |-> <<>>,
       max_results_per_query |-> 5],
      [needs_research |-> TRUE, mode |-> "open_book", queries |-> <<"q1", "q2", "q3">>,
       max_results_per_query |-> 5] }

StreamPlans ==
    {Plan(<<"T">>, "tutorial", ts) : ts \in {<<Task(1)>>, <<Task(1), Task(2)>>}}

InitStream ==
    /\ pc = "START"
    /\ state = _initial_state(Topic, Today)
    /\ sends = <<>>
    /\ wstatus = <<>>
    /\ wout = <<>>
    /\ executed = <<>>
    /\ raised = <<>>
    /\ disk = <<>>
    /\ calls = <<>>
    /\ reply = NoReply
    /\ stream = [call |-> 1, yielded |-> <<>>]

\* graph_app.stream(inputs) / graph_app.invoke(inputs): a new run from inputs
GraphCall(k) ==
    /\ pc' = "START"
    /\ state' = _initial_state(Topic, Today)
    /\ sends' = <<>>
    /\ wstatus' = <<>>
    /\ wout' = <<>>
    /\ reply' = NoReply
    /\ stream' = [stream EXCEPT !.call = k]
    /\ UNCHANGED <<executed, raised, disk, calls>>

StreamRouter == RouterStep(StreamDecisions)

StreamResearch ==
    ResearchStep({<<"r1">>}, {<<EvidenceItem("X", "a", IsoDate(Today - 1))>>})

StreamOrchestrator == OrchestratorStep(StreamPlans)

StreamWorker(i) == WorkerStep(i, {<<"a">>})

\* the stream() loop ended: out = graph_app.invoke(inputs)
StreamThenInvoke ==
    /\ pc = "END"
    /\ stream.call \in {1, 3}
    /\ GraphCall(stream.call + 1)

\* invoke returned: yield ("final", out); return
YieldFinal ==
    /\ pc = "END"
    /\ stream.call \in {2, 4, 5}
    /\ stream' = [stream EXCEPT !.yielded = Append(@, <<"final", state>>)]
    /\ pc' = "RETURNED"
    /\ UNCHANGED <<state, sends, wstatus, wout, executed, raised, disk, calls, reply>>

\* except Exception: pass -- and on to the next try block
ExceptPass ==
    /\ pc = "FAILED"
    /\ stream.call \in 1..4
    /\ GraphCall(IF stream.call <= 2 THEN 3 ELSE 5)

\* the mutation of Propagates used to test C33: the exception of the last
\* invoke is swallowed and try_stream returns
Propagates_Swallowed ==
    /\ pc = "FAILED"
    /\ stream.call = 5
    /\ pc' = "RETURNED"
    /\ UNCHANGED <<state, sends, wstatus, wout, executed, raised, disk, calls, reply, stream>>

\* the last invoke is outside any try: its exception leaves try_stream
Propagates ==
    /\ pc = "FAILED"
    /\ stream.call = 5
    /\ pc' = "RAISED"
    /\ UNCHANGED <<state, sends, wstatus, wout, executed, raised, disk, calls, reply, stream>>

\* current_state.update(d): the keys of d are overwritten, the others kept
DictUpdate(current_state, d) ==
    [f \in (DOMAIN current_state) \cup (DOMAIN d) |->
        IF f \in DOMAIN d THEN d[f] ELSE current_state[f]]

\* extract_latest_state: a one-key payload whose value is a dict -- every
\* {node: update} item, a node's update being a dict -- is unwrapped before
\* the update; any other payload (a ten-key State) is merged as it is
extract_latest_state(current_state, payload) ==
    IF Cardinality(DOMAIN payload) = 1
    THEN DictUpdate(current_state, payload[CHOOSE n \in DOMAIN payload : TRUE])
    ELSE DictUpdate(current_state, payload)

\* current_state: Dict = {}
EmptyDict == [f \in {} |-> {}]

\* the handler's loop over the items of try_stream: current_state after the
\* items `events`, one variable across all attempts
RECURSIVE current_state_after(_)
current_state_after(events) ==
    IF events = <<>>
    THEN EmptyDict
    ELSE LET before == current_state_after(SubSeq(events, 1, Len(events) - 1))
             kind == events[Len(events)][1]
             payload == events[Len(events)][2]
         IN  IF kind \in {"updates", "values"}
             THEN extract_latest_state(before, payload)
             ELSE before

\* "sections_done": len(current_state.get("sections") or [])
sections_done(current_state) ==
    IF "sections" \in DOMAIN current_state THEN Len(current_state.sections) ELSE 0

NextStream ==
    \/ Invoke
    \/ StreamRouter
    \/ RouterRaises
    \/ StreamResearch
    \/ ResearchRaises
    \/ StreamOrchestrator
    \/ OrchestratorRaises
    \/ Fanout
    \/ (\E i \in 1..Len(sends) : StreamWorker(i))
    \/ (\E i \in 1..Len(sends) : WorkerRaises(i))
    \/ ReducerRuns
    \/ ReducerWriteRaises
    \/ StreamThenInvoke
    \/ YieldFinal
    \/ ExceptPass
    \/ Propagates

SpecStream == InitStream /\ [][NextStream]_vars

----------------------------------------------------------------------------
(* Properties *)

Ran(node) == \E k \in 1..Len(executed) : executed[k] = node

Count(seq, x) == Cardinality({k \in 1..Len(seq) : seq[k] = x})

PermsOf(seq) ==
    {[k \in 1..Len(seq) |-> seq[f[k]]] : f \in Permutations(1..Len(seq))}

AscendingIds(pairs) ==
    \A k \in 1..Len(pairs) - 1 : pairs[k][1] <= pairs[k + 1][1]

DispatchedIds == [k \in 1..Len(sends) |-> sends[k].task.id]

SectionIds == [k \in 1..Len(state.sections) |-> state.sections[k][1]]

ReduceStarted == pc = "reducer" \/ Ran("reducer")

ReduceReturned == pc = "END" /\ Ran("reducer")

\* C1: Reduce starts only after every dispatched worker instance has returned
\* and its result is merged: when Reduce starts, sections holds exactly one
\* pair per dispatched task.
C1_Barrier ==
    ReduceStarted =>
        /\ \A i \in 1..Len(sends) : wstatus[i] = "done" /\ wout[i] # <<>>
        /\ Len(state.sections) = Len(sends)
        /\ \A id \in TaskIds : Count(SectionIds, id) = Count(DispatchedIds, id)

C1_Witness ==
    /\ pc = "reducer"
    /\ Len(sends) >= 2
    /\ SectionIds # DispatchedIds

\* C2: whatever the interleaving of the workers, sections is the bag union of
\* the pairs the finished workers returned; once the last one has returned it
\* holds all N pairs, none lost or overwritten.
C2_MergeIsUnion ==
    /\ \A p \in ({wout[i] : i \in 1..Len(wout)} \cup
                 {state.sections[j] : j \in 1..Len(state.sections)}) \ {<<>>} :
          Count(state.sections, p) = Count(wout, p)
    /\ (sends # <<>> /\ BarrierReleased(wstatus)) => Len(state.sections) = Len(sends)

C2_Witness ==
    /\ Len(sends) >= 3
    /\ BarrierReleased(wstatus)
    /\ state.sections # wout

\* C3: the body of final is the section contents in ascending id order joined
\* by a blank line, whatever order the pairs arrived in (so the final
\* document does not depend on the workers' completion order).
C3_OrderRecovery ==
    ReduceReturned =>
        \A q \in PermsOf(state.sections) :
            AscendingIds(q) =>
                state.final = <<"#", SP>> \o state.plan.blog_title \o <<NL, NL>>
                              \o Join(<<NL, NL>>, Contents(q)) \o <<NL>>

\* C4: Research runs exactly when needs_research is true; when it is false
\* the orchestrator follows the router directly and Research never runs.
C4_ConditionalRouting ==
    /\ Ran("research") => state.needs_research
    /\ pc = "research" => state.needs_research
    /\ (pc = "orchestrator" /\ ~Ran("research")) => ~state.needs_research
    /\ Len(executed) >= 2 =>
          /\ executed[1] = "router"
          /\ executed[2] = IF state.needs_research THEN "research" ELSE "orchestrator"

C4_Witness ==
    /\ state.needs_research
    /\ state.mode = "closed_book"
    /\ Len(executed) >= 3
    /\ executed[2] = "research"
    /\ executed[3] = "orchestrator"

\* C5: for a plan of N tasks fanout dispatches exactly N work units, the i-th
\* for the i-th task, and the units' task ids are pairwise distinct.
C5_FanoutWidth ==
    (Ran("fanout") /\ raised = <<>>) =>
        /\ Len(sends) = Len(state.plan.tasks)
        /\ \A i \in 1..Len(sends) : sends[i].task = state.plan.tasks[i]
        /\ \A i, j \in 1..Len(sends) : i # j => sends[i].task.id # sends[j].task.id

\* C6: a run in which nothing raised ends with router, (research),
\* orchestrator, fanout, one worker per task and the reducer executed in that
\* order, and with final written by the reducer, whatever plan was returned.
C6_Completion ==
    (pc = "END" /\ raised = <<>>) =>
        /\ executed = <<"router">>
                      \o (IF state.needs_research THEN <<"research">> ELSE <<>>)
                      \o <<"orchestrator", "fanout">>
                      \o [k \in 1..Len(state.plan.tasks) |-> "worker"]
                      \o <<"reducer">>
        /\ state.final # <<>>
        /\ state.final = reducer_node(state).final

\* C7: fanout and reducer_node called with plan = None raise; nothing is
\* dispatched, final is not written and no file is written.
C7_PreconditionEnforced ==
    state.plan = Null =>
        /\ raised = executed
        /\ sends = <<>>
        /\ state.final = <<>>
        /\ disk = <<>>

C7_Witness ==
    /\ state.plan = Null
    /\ state.sections # <<>>
    /\ Ran("fanout")
    /\ Ran("reducer")

\* C8: when a dispatched worker raises, the run fails and the reducer never
\* runs: final is only ever produced from sections that hold the pair of
\* every dispatched task.
C8_NoPartialReduce ==
    /\ ReduceStarted =>
          \A i \in 1..Len(sends) :
             /\ wstatus[i] = "done"
             /\ \E j \in 1..Len(state.sections) : state.sections[j] = wout[i]
    /\ (\E i \in 1..Len(sends) : wstatus[i] = "failed") =>
          /\ pc = "FAILED"
          /\ ~Ran("reducer")
          /\ state.final = <<>>
          /\ disk = <<>>

C8_Witness ==
    /\ \E i \in 1..Len(sends) : wstatus[i] = "failed"
    /\ \E i \in 1..Len(sends) : wstatus[i] = "done"
    /\ state.sections # <<>>

\* C9: when Reduce runs, the ids of the pairs in sections are pairwise
\* distinct and each is the id of exactly one task of plan.tasks.
C9_SectionIds ==
    ReduceStarted =>
        \A j \in 1..Len(state.sections) :
            /\ Count(SectionIds, SectionIds[j]) = 1
            /\ Cardinality({i \in 1..Len(state.plan.tasks) :
                              state.plan.tasks[i].id = SectionIds[j]}) = 1

\* C10: plan is non-null once the orchestrator has returned, and plan.tasks
\* is non-empty when fanout executes.
C10_PlanInvariant ==
    /\ (Ran("orchestrator") /\ raised = <<>>) => state.plan # Null
    /\ (pc = "fanout" \/ Ran("fanout")) =>
          /\ state.plan # Null
          /\ state.plan.tasks # <<>>

Returned(node) ==
    /\ Ran(node)
    /\ \A k \in 1..Len(raised) : raised[k] # node

\* C11: after the router has returned, recency_days is 7 for open_book, 45
\* for hybrid and 3650 for closed_book, whatever the classifier returned in
\* its other fields and whatever recency_days was before.
C11_RecencyByMode ==
    Returned("router") =>
        /\ state.mode \in Modes
        /\ state.mode = "open_book"   => state.recency_days = 7
        /\ state.mode = "hybrid"      => state.recency_days = 45
        /\ state.mode = "closed_book" => state.recency_days = 3650

C11_Witness ==
    /\ executed = <<"router">>
    /\ raised = <<>>
    /\ state.mode = "hybrid"
    /\ state.recency_days = 45
    /\ reply.max_results_per_query = 7

\* C12: while mode is open_book, the plan stored by the orchestrator has
\* blog_kind news_roundup whatever kind the planner returned, and every Send
\* built by fanout carries that plan.
C12_OpenBookKind ==
    (state.mode = "open_book" /\ state.plan # Null) =>
        /\ state.plan.blog_kind = "news_roundup"
        /\ \A i \in 1..Len(sends) :
              /\ sends[i].plan = state.plan
              /\ sends[i].plan.blog_kind = "news_roundup"

C12_Witness ==
    /\ state.mode = "open_book"
    /\ Returned("orchestrator")
    /\ reply.blog_kind = "tutorial"
    /\ Len(sends) >= 2
    /\ sends[2].plan.blog_kind = "news_roundup"

\* C13: in every run in which the router sets mode to closed_book, the
\* research node is not executed and evidence stays empty.
C13_ClosedBookNoResearch ==
    (Returned("router") /\ state.mode = "closed_book") =>
        /\ pc # "research"
        /\ ~Ran("research")
        /\ state.evidence = <<>>

Range(seq) == {seq[k] : k \in 1..Len(seq)}

\* the items of pack that are the last of their (non-empty) url
LastOccurrences(pack) ==
    {pack[k] : k \in {n \in 1..Len(pack) :
                        /\ pack[n].url # ""
                        /\ \A j \in (n + 1)..Len(pack) : pack[j].url # pack[n].url}}

\* published_at is a date not earlier than as_of - recency_days
InWindow(item) ==
    /\ item.published_at.kind = "iso"
    /\ item.published_at.day >= state.as_of - state.recency_days

\* C14: the evidence written by research holds at most one item per url, no
\* item with an empty url, and for each url the item kept is the last one of
\* that url in the extractor's output.
C14_EvidenceDedup ==
    Returned("research") =>
        /\ \A i, j \in 1..Len(state.evidence) :
              state.evidence[i].url = state.evidence[j].url => i = j
        /\ \A i \in 1..Len(state.evidence) : state.evidence[i].url # ""
        /\ Range(state.evidence) \subseteq LastOccurrences(reply.pack)

C14_Witness ==
    /\ Returned("research")
    /\ Len(reply.pack) = 3
    /\ reply.pack[1].url = "a"
    /\ reply.pack[2].url = ""
    /\ reply.pack[3].url = "a"
    /\ reply.pack[1] # reply.pack[3]
    /\ state.evidence = <<reply.pack[3]>>

\* C15: in open_book mode research keeps an item exactly when its
\* published_at is a date not earlier than as_of - recency_days; items with
\* no date, or an earlier one, are dropped.
C15_RecencyFilter ==
    (Returned("research") /\ state.mode = "open_book") =>
        Range(state.evidence) = {e \in LastOccurrences(reply.pack) : InWindow(e)}

C15_Witness ==
    /\ Returned("research")
    /\ state.mode = "open_book"
    /\ state.recency_days = 7
    /\ Len(reply.pack) = 3
    /\ reply.pack[1] = EvidenceItem("t", "a", IsoDate(Today - 7))
    /\ reply.pack[2] = EvidenceItem("t", "b", IsoDate(Today - 8))
    /\ reply.pack[3] = EvidenceItem("t", "b", NoDate)
    /\ state.evidence = <<reply.pack[1]>>

\* C16: in hybrid and closed_book mode the evidence written by research is
\* the whole deduplicated set, undated and old items included.
C16_NoFilterOutsideOpenBook ==
    (Returned("research") /\ state.mode \in {"hybrid", "closed_book"}) =>
        Range(state.evidence) = LastOccurrences(reply.pack)

C16_Witness ==
    /\ Returned("research")
    /\ state.mode = "hybrid"
    /\ state.recency_days = 7
    /\ state.evidence = << EvidenceItem("t", "a", NoDate),
                           EvidenceItem("t", "b", IsoDate(Today - 8)) >>

Last(seq) == seq[Len(seq)]

\* C17: when the searches of research return no result in total (also when
\* there is no query), research writes evidence = [] without calling the
\* extractor and without raising, and the orchestrator is next.
C17_EmptyResearch ==
    /\ (executed # <<>> /\ Last(executed) = "research" /\ raised = <<>>
            /\ Flatten(reply.hits) = <<>>) =>
          /\ state.evidence = <<>>
          /\ Count(calls, ExtractorCall) = 0
          /\ pc = "orchestrator"
    /\ (Ran("research") /\ Take(state.queries, 2) = <<>>) =>
          /\ Returned("research")
          /\ state.evidence = <<>>
          /\ Count(calls, ExtractorCall) = 0

C17_Witness ==
    /\ pc = "orchestrator"
    /\ Returned("research")
    /\ reply.hits = << <<>>, <<>> >>
    /\ Len(calls) = 3
    /\ state.evidence = <<>>

\* position of a node in the graph START -> router -> research ->
\* orchestrator -> fanout -> worker -> reducer -> END
Rank(node) ==
    CASE node = "router"       -> 1
      [] node = "research"     -> 2
      [] node = "orchestrator" -> 3
      [] node = "fanout"       -> 4
      [] node = "worker"       -> 5
      [] node = "reducer"      -> 6

\* C18: in one run router, research, orchestrator and reducer execute at
\* most once, the worker once per Send, nodes execute in graph order, and
\* nothing executes after a node has raised.
C18_StrictDag ==
    /\ \A n \in {"router", "research", "orchestrator", "fanout", "reducer"} :
          Count(executed, n) <= 1
    /\ Count(executed, "worker") =
          Cardinality({i \in 1..Len(sends) : wstatus[i] # "running"})
    /\ ReduceStarted => Count(executed, "worker") = Len(sends)
    /\ \A k \in 1..(Len(executed) - 1) :
          /\ Rank(executed[k]) <= Rank(executed[k + 1])
          /\ Rank(executed[k]) = Rank(executed[k + 1]) => executed[k] = "worker"
    /\ Len(raised) <= 1
    /\ raised # <<>> => pc = "FAILED" /\ Last(executed) = raised[1]

C18_Witness ==
    /\ pc = "END"
    /\ executed = <<"router", "research", "orchestrator", "fanout",
                    "worker", "worker", "worker", "reducer">>

\* C19: every plan stored in state by the orchestrator has between 5 and 9
\* tasks.
C19_PlanSize ==
    Returned("orchestrator") =>
        /\ Len(state.plan.tasks) >= 5
        /\ Len(state.plan.tasks) <= 9

\* C20: when the classification call fails the run fails in the router: no
\* later node executes, and mode, needs_research, queries and recency_days
\* keep the values of the initial state.
C20_ClassificationFatal ==
    (Ran("router") /\ reply = NoReply) =>
        /\ pc = "FAILED"
        /\ raised = <<"router">>
        /\ executed = <<"router">>
        /\ state = _initial_state(Topic, Today)
        /\ sends = <<>>
        /\ disk = <<>>

C20_Witness ==
    /\ raised = <<"router">>
    /\ calls = <<DeciderCall>>
    /\ pc = "FAILED"

RouterFields(st) == <<st.mode, st.needs_research, st.queries, st.recency_days>>

\* C21: every field of State other than sections changes only in the step of
\* its one writer, which has not run before: mode, needs_research, queries
\* and recency_days in the router's, evidence in research's, plan in the
\* orchestrator's, final in the reducer's; topic and as_of never change.
C21_SingleWriter ==
    [][ /\ state'.topic = state.topic
        /\ state'.as_of = state.as_of
        /\ RouterFields(state') # RouterFields(state) =>
              executed' = Append(executed, "router") /\ ~Ran("router")
        /\ state'.evidence # state.evidence =>
              executed' = Append(executed, "research") /\ ~Ran("research")
        /\ state'.plan # state.plan =>
              executed' = Append(executed, "orchestrator") /\ ~Ran("orchestrator")
        /\ state'.final # state.final =>
              executed' = Append(executed, "reducer") /\ ~Ran("reducer")
      ]_vars

C21_Witness ==
    /\ pc = "END"
    /\ state.mode = "hybrid"
    /\ state.evidence # <<>>
    /\ state.plan # Null
    /\ state.final # <<>>
    /\ state.topic = Topic
    /\ state.as_of = Today

\* C22: a worker instance returns exactly one pair, whose id is the task id
\* of its own payload and whose text is the stripped reply to its own call;
\* its step appends that pair to sections and changes nothing else of State
\* nor any other instance's result.
C22_WorkerIsolation ==
    [][ \A i \in 1..Len(sends) :
          (pc = "worker" /\ wstatus[i] = "running" /\ wstatus'[i] = "done") =>
              /\ Len(wout'[i]) = 2
              /\ wout'[i][1] = sends[i].task.id
              /\ \E content \in RawContents :
                    worker_node(sends[i], content).sections = <<wout'[i]>>
              /\ state' = [state EXCEPT !.sections = Append(@, wout'[i])]
              /\ \A j \in 1..Len(sends) :
                    j # i => wout'[j] = wout[j] /\ wstatus'[j] = wstatus[j]
      ]_vars

C22_Witness ==
    /\ Len(sends) = 2
    /\ wstatus = <<"done", "done">>
    /\ wout[1][1] = 2
    /\ wout[2][1] = 1
    /\ wout[1][2] # wout[2][2]

MdSuffix == <<".", "m", "d">>

\* C23 (as stated): a run that completes the reducer makes exactly one write,
\* of the text of final, to the file named by plan.blog_title with the
\* path-unsafe characters removed, plus ".md".
C23_NameUnsafeRemoved ==
    ReduceReturned =>
        /\ Len(disk) = 1
        /\ disk[1].text = state.final
        /\ disk[1].name =
              SelectSeq(state.plan.blog_title, LAMBDA c : c \notin UnsafeChars) \o MdSuffix

\* C23 (amended): a run that completes the reducer makes exactly one write,
\* of the text of final, to the file named by plan.blog_title with every
\* path-unsafe character replaced by an underscore, plus ".md"; a run that
\* does not complete the reducer writes nothing.
C23_Persistence ==
    /\ ReduceReturned =>
          /\ Len(disk) = 1
          /\ disk[1].text = state.final
          /\ Len(disk[1].name) = Len(state.plan.blog_title) + 3
          /\ SubSeq(disk[1].name, Len(state.plan.blog_title) + 1, Len(disk[1].name)) = MdSuffix
          /\ \A k \in 1..Len(state.plan.blog_title) :
                /\ disk[1].name[k] \notin UnsafeChars
                /\ disk[1].name[k] = IF state.plan.blog_title[k] \in UnsafeChars
                                     THEN "_" ELSE state.plan.blog_title[k]
    /\ ~ReduceReturned => disk = <<>>

C23_Witness ==
    /\ ReduceReturned
    /\ state.plan.blog_title = <<"a", "/", "B">>
    /\ disk = << [name |-> <<"a", "_", "B", ".", "m", "d">>, text |-> state.final] >>

\* C24: final is empty in every state before the reducer has returned; the
\* reducer, which runs once, sets it to the line "# <blog_title>", a blank
\* line, and the body made of the sections' texts separated by blank lines.
C24_FinalLifecycle ==
    /\ ~ReduceReturned => state.final = <<>>
    /\ ReduceReturned =>
          /\ Count(executed, "reducer") = 1
          /\ \E perm \in PermsOf(state.sections) :
                state.final = <<"#", SP>> \o state.plan.blog_title \o <<NL, NL>>
                              \o Join(<<NL, NL>>, Contents(perm)) \o <<NL>>

C24_Witness ==
    /\ ReduceReturned
    /\ Len(state.sections) = 2
    /\ state.final = <<"#", SP, "T", NL, NL, "a", NL, NL, "b", NL>>

\* C25: when a search or LLM call fails inside research, the orchestrator
\* or a worker, the run fails there: the failed call is the last call made
\* and is made once, no node after the failing one executes, and final and
\* the file are never written.
C25_NoEngineRetry ==
    (raised # <<>> /\ raised[1] \in {"research", "orchestrator", "worker"}) =>
        /\ pc = "FAILED"
        /\ Len(raised) = 1
        /\ Last(executed) = raised[1]
        /\ ~Ran("reducer")
        /\ state.final = <<>>
        /\ disk = <<>>
        /\ raised[1] = "research" =>
              /\ ~Ran("orchestrator")
              /\ Last(calls).fn \in {"tavily_search", "extractor"}
              /\ Count(calls, Last(calls)) = 1
        /\ raised[1] = "orchestrator" =>
              /\ state.plan = Null /\ sends = <<>>
              /\ Last(calls) = PlannerCall
              /\ Count(calls, PlannerCall) = 1
        /\ raised[1] = "worker" =>
              /\ Last(calls).fn = "llm"
              /\ Cardinality({k \in 1..Len(calls) : calls[k].fn = "llm"}) =
                    Cardinality({i \in 1..Len(sends) : wstatus[i] # "running"})
              /\ Cardinality({i \in 1..Len(sends) : wstatus[i] = "failed"}) = 1

C25_Witness ==
    /\ raised = <<"worker">>
    /\ Len(sends) = 3
    /\ wstatus = <<"done", "failed", "running">>
    /\ Ran("research")
    /\ state.evidence # <<>>

\* C26: every Send built by fanout carries topic, mode, as_of, recency_days,
\* plan and evidence equal to State's, and the i-th carries the i-th task, so
\* the payloads of a run differ in the task field only.
C26_FanoutPayload ==
    Returned("fanout") =>
        /\ Len(sends) = Len(state.plan.tasks)
        /\ \A i \in 1..Len(sends) :
              /\ DOMAIN sends[i] =
                    {"task", "topic", "mode", "as_of", "recency_days", "plan", "evidence"}
              /\ sends[i].task = state.plan.tasks[i]
              /\ sends[i].topic = state.topic
              /\ sends[i].mode = state.mode
              /\ sends[i].as_of = state.as_of
              /\ sends[i].recency_days = state.recency_days
              /\ sends[i].plan = state.plan
              /\ sends[i].evidence = state.evidence
        /\ \A i, j \in 1..Len(sends) :
              [sends[i] EXCEPT !.task = sends[j].task] = sends[j]

C26_Witness ==
    /\ Returned("fanout")
    /\ Len(sends) = 3
    /\ sends[1].task # sends[2].task
    /\ sends[3].evidence # <<>>
    /\ sends[3].mode = "open_book"

Searches == SelectSeq(calls, LAMBDA c : c.fn = "tavily_search")

C28_TaskFieldBounds ==
    Returned("orchestrator") =>
        \A k \in 1..Len(state.plan.tasks) :
            /\ Len(state.plan.tasks[k].bullets) >= 3
            /\ Len(state.plan.tasks[k].bullets) <= 6
            /\ state.plan.tasks[k].target_words >= 120
            /\ state.plan.tasks[k].target_words <= 550

\* C29: a failure of a node surfaces to the caller of try_stream: once a
\* node has raised, the request is failing or has failed with that one
\* exception, nothing runs afterwards and no final result is yielded.
C29_FailureSurfaced ==
    raised # <<>> =>
        /\ pc \in {"FAILED", "RAISED"}
        /\ Len(raised) = 1
        /\ Last(executed) = raised[1]
        /\ stream.yielded = <<>>

\* C30: a call of try_stream in which no call fails executes the pipeline
\* once: one classification call, one planner call, one LLM call per task,
\* one file write.
C30_SingleExecution ==
    (pc = "RETURNED" /\ raised = <<>>) =>
        /\ Count(calls, DeciderCall) = 1
        /\ Count(calls, PlannerCall) = 1
        /\ Count(executed, "reducer") = 1
        /\ Len(disk) = 1

\* C31: the file name printed in run()'s summary is the name of the file the
\* reducer wrote, for every blog_title.
C31_SummaryFileName ==
    ReduceReturned =>
        /\ Len(disk) = 1
        /\ run_summary(state).saved_as = disk[1].name

Kinds == [k \in 1..Len(stream.yielded) |-> stream.yielded[k][1]]

\* C33: try_stream event order: a call of try_stream that has returned has
\* yielded exactly one "final" item, as its last item, every item before it
\* being an "updates" or "values" item; no "final" item exists before the
\* return; and when try_stream has raised, all three attempts failed and no
\* "final" item was yielded.
C33_EventOrder ==
    /\ pc = "RETURNED" =>
          /\ Count(Kinds, "final") = 1
          /\ Last(Kinds) = "final"
          /\ \A k \in 1..(Len(Kinds) - 1) : Kinds[k] \in {"updates", "values"}
    /\ pc # "RETURNED" => Count(Kinds, "final") = 0
    /\ pc = "RAISED" =>
          /\ stream.call = 5
          /\ Len(raised) >= 3

\* the first attempt fails after "updates" items, the second succeeds after
\* "values" items, and the "final" item comes last
C33_Witness ==
    /\ pc = "RETURNED"
    /\ stream.call = 4
    /\ Count(Kinds, "updates") >= 2
    /\ Count(Kinds, "values") >= 2
    /\ Last(Kinds) = "final"

\* the "worker" items among the first n items yielded
WorkerResults(n) ==
    {k \in 1..n : /\ stream.yielded[k][1] = "updates"
                  /\ DOMAIN stream.yielded[k][2] = {"worker"}}

\* C34: progress count: after each "updates" item the front-end consumes,
\* the sections_done it displays equals the number of worker results
\* received so far in that run.
C34_ProgressCount ==
    \A n \in 1..Len(stream.yielded) :
        stream.yielded[n][1] = "updates" =>
            sections_done(current_state_after(SubSeq(stream.yielded, 1, n)))
                = Cardinality(WorkerResults(n))

====
